---- MODULE Spec2Model ----
(***************************************************************************)
(* numprint: pretty printing of digit sequences.                           *)
(*                                                                         *)
(* The entry points Fprint and Fwrite, the option functions, endOf,        *)
(* fromSequenceWithPositions, fromIterator and mutateSettings are          *)
(* translated from src/print.go.  The printer (newPrinter, CanConsume,     *)
(* Consume, Finish, BytesWritten, Err) and the Positions type are used by  *)
(* print.go but defined elsewhere in the package; they are modelled from   *)
(* sections 3, 4.1 and 4.4 of the specification.                           *)
(***************************************************************************)
EXTENDS Integers, Sequences, FiniteSets, TLC

\* ------------------------------------------------------------------ bounds
\* Positions run over 0 .. MaxPos - 1 and extents over 0 .. MaxPos.
MaxPos == 3
\* Longest option list handed to an entry point when only the settings are
\* built (SettingsSpec).
MaxOpts == 3

\* Arguments tried for DigitsPerRow and DigitsPerColumn, the missing-digit
\* glyphs, the buffer-size hints and the
\* number of bytes the sink accepts in one handler call before it fails.
RowArgs == {0, 2, 3}
ColumnArgs == {0, 1, 2}
Glyphs == {"?"}
BufferArgs == {16}
Budgets == 0 .. 2
\* The digit a source holds at a position (distinct for neighbours, so a
\* digit shown at the wrong position is seen).
Digits(pos) == {(7 * pos + 3) % 10}
\* A full run takes an option list of one of these lengths and a Positions
\* value with one of these numbers of ranges.
OptionCounts == 0 .. 2
RangeCounts == 0 .. 2

\* ------------------------------------------------------------ basic values
\* A nil error, and the error the sink returns from its n-th rejected write.
NoErr == <<>>
WriteErr(n) == <<n>>

Min(a, b) == IF a < b THEN a ELSE b

DigitChar(d) == <<"0", "1", "2", "3", "4", "5", "6", "7", "8", "9">>[d + 1]

RECURSIVE Decimal(_)
Decimal(n) ==
  IF n < 10 THEN <<DigitChar(n)>>
  ELSE Decimal(n \div 10) \o <<DigitChar(n % 10)>>

\* ---------------------------------------------------------------- options
\* Seeded fault: DigitsPerRow stores its count in the column field.
DigitsPerRowSetsColumn(count, p) == [p EXCEPT !.digitsPerColumn = count]

DigitsPerRow(count, p) == [p EXCEPT !.digitsPerRow = count]

\* Seeded fault: DigitsPerColumn stores its count in the row field.
DigitsPerColumnSetsRow(count, p) == [p EXCEPT !.digitsPerRow = count]

DigitsPerColumn(count, p) == [p EXCEPT !.digitsPerColumn = count]

ShowCount(on, p) == [p EXCEPT !.showCount = on]

MissingDigit(missingDigit, p) == [p EXCEPT !.missingDigit = missingDigit]

TrailingLF(on, p) == [p EXCEPT !.trailingLineFeed = on]

\* Seeded fault: LeadingDecimal sets the trailing-line-feed field.
LeadingDecimalSetsTrailingLF(on, p) == [p EXCEPT !.trailingLineFeed = on]

LeadingDecimal(on, p) == [p EXCEPT !.leadingDecimal = on]

bufferSize(size, p) == [p EXCEPT !.bufferSize = size]

\* An Option value: the option function that built it and its argument
\* (count, on or glyph, by the option's parameter type).
IntOption(name, count) == [name |-> name, count |-> count, on |-> FALSE, glyph |-> ""]
BoolOption(name, on) == [name |-> name, count |-> 0, on |-> on, glyph |-> ""]
RuneOption(name, glyph) == [name |-> name, count |-> 0, on |-> FALSE, glyph |-> glyph]

OptionValues ==
  {IntOption("DigitsPerRow", n) : n \in RowArgs}
    \cup {IntOption("DigitsPerColumn", n) : n \in ColumnArgs}
    \cup {BoolOption(f, b) : f \in {"ShowCount", "TrailingLF", "LeadingDecimal"},
                             b \in BOOLEAN}
    \cup {RuneOption("MissingDigit", g) : g \in Glyphs}
    \cup {IntOption("bufferSize", n) : n \in BufferArgs}

\* optionFunc.mutate: run the closure the option function returned.
mutate(o, p) ==
  CASE o.name = "DigitsPerRow" -> DigitsPerRow(o.count, p)
    [] o.name = "DigitsPerColumn" -> DigitsPerColumn(o.count, p)
    [] o.name = "ShowCount" -> ShowCount(o.on, p)
    [] o.name = "MissingDigit" -> MissingDigit(o.glyph, p)
    [] o.name = "TrailingLF" -> TrailingLF(o.on, p)
    [] o.name = "LeadingDecimal" -> LeadingDecimal(o.on, p)
    [] o.name = "bufferSize" -> bufferSize(o.count, p)

\* Seeded fault: the options are applied last to first, so the first option
\* naming a field wins.
RECURSIVE mutateSettingsFirstWins(_, _)
mutateSettingsFirstWins(opts, s) ==
  IF opts = <<>> THEN s
  ELSE mutate(Head(opts), mutateSettingsFirstWins(Tail(opts), s))

RECURSIVE mutateSettings(_, _)
mutateSettings(opts, s) ==
  IF opts = <<>> THEN s
  ELSE mutateSettings(Tail(opts), mutate(Head(opts), s))

\* The printerSettings literal of Fprint; fields it leaves out are zero.
FprintDefaults ==
  [digitsPerRow |-> 50, digitsPerColumn |-> 5, showCount |-> TRUE,
   missingDigit |-> ".", trailingLineFeed |-> FALSE, leadingDecimal |-> TRUE,
   bufferSize |-> 0]

\* The printerSettings literal of Fwrite.
FwriteDefaults ==
  [digitsPerRow |-> 50, digitsPerColumn |-> 5, showCount |-> TRUE,
   missingDigit |-> ".", trailingLineFeed |-> TRUE, leadingDecimal |-> FALSE,
   bufferSize |-> 0]

\* -------------------------------------------------------------- Positions
\* A Positions value: its ranges [Start, End) in the order All() yields them.
Ranges == {r \in [Start : 0 .. MaxPos, End : 0 .. MaxPos] : r.Start <= r.End}

RECURSIVE End(_)
End(p) ==
  IF p = <<>> THEN 0
  ELSE LET e == End(Tail(p)) IN IF Head(p).End > e THEN Head(p).End ELSE e

\* ------------------------------------------------------------ sink, printer
\* One byte handed to the sink, with the rendering step that emitted it:
\* kind is "dec" ("0."), "margin", "digit", "sep" (column space), "lf" (row
\* break) or "tlf" (the trailing line feed of Finish).
Tag(chars, kind, pos) ==
  [i \in 1 .. Len(chars) |-> [ch |-> chars[i], kind |-> kind, pos |-> pos]]

\* The sink: the bytes it accepted, how many writes it rejected, and, when
\* limited, how many more bytes it accepts before it rejects a write.
NewSink == [data |-> <<>>, rejects |-> 0, limited |-> FALSE, left |-> 0]

SinkChoices ==
  {[limited |-> FALSE, left |-> 0]} \cup {[limited |-> TRUE, left |-> b] : b \in Budgets}

\* A sink that has rejected a write keeps rejecting.
Arm(w, c) ==
  IF w.rejects > 0 THEN [w EXCEPT !.limited = TRUE, !.left = 0]
  ELSE [w EXCEPT !.limited = c.limited, !.left = c.left]

Settle(w) ==
  IF w.rejects > 0 THEN [w EXCEPT !.limited = TRUE, !.left = 0]
  ELSE [w EXCEPT !.limited = FALSE, !.left = 0]

newPrinter(extent) ==
  [extent |-> extent, cursor |-> 0, bytesWritten |-> 0, err |-> NoErr]

CanConsume(p) == p.err = NoErr /\ p.cursor < p.extent

BytesWritten(p) == p.bytesWritten

Err(p) == p.err

\* One write of the printer, e = [p |-> printer, w |-> sink]: nothing is
\* written once an error is recorded; the sink accepts a prefix of the bytes
\* and rejects the write when it does not accept them all.
Write(e, bytes) ==
  IF e.p.err # NoErr THEN e
  ELSE LET n == IF e.w.limited THEN Min(Len(bytes), e.w.left) ELSE Len(bytes)
           ok == n = Len(bytes)
       IN [p |-> [e.p EXCEPT !.bytesWritten = @ + n,
                             !.err = IF ok THEN NoErr ELSE WriteErr(e.w.rejects + 1)],
           w |-> [e.w EXCEPT !.data = @ \o SubSeq(bytes, 1, n),
                             !.left = IF e.w.limited THEN @ - n ELSE @,
                             !.rejects = IF ok THEN @ ELSE @ + 1]]

IndexInRow(s, pos) == IF s.digitsPerRow > 0 THEN pos % s.digitsPerRow ELSE pos

FirstColumnOfRow(s, pos) == IndexInRow(s, pos) = 0

CompletesColumn(s, pos) ==
  s.digitsPerColumn > 0 /\ (IndexInRow(s, pos) + 1) % s.digitsPerColumn = 0

CompletesRow(s, pos) == s.digitsPerRow > 0 /\ (pos + 1) % s.digitsPerRow = 0

\* The last position of the extent ends the final row; its line break is
\* left to Finish.
LastOfExtent(p, pos) == pos + 1 >= p.extent

\* "The last column of the row" of step 4: the column that ends the row, or
\* the one that ends the final, possibly partial, row of the extent (no
\* space trails a row).
LastColumnOfRow(s, p, pos) == CompletesRow(s, pos) \/ LastOfExtent(p, pos)

\* The count margin: the position right-justified to the width of the
\* extent, then a space.
Margin(p, pos) ==
  LET num == Decimal(pos)
      width == Len(Decimal(p.extent))
  IN [i \in 1 .. (width - Len(num)) |-> " "] \o num \o <<" ">>

\* The per-digit rendering algorithm, steps 1 to 5, for the glyph at pos.
Render(e, s, pos, glyph) ==
  LET e1 == IF s.leadingDecimal /\ pos = 0
            THEN Write(e, Tag(<<"0", ".">>, "dec", pos)) ELSE e
      e2 == IF s.showCount /\ FirstColumnOfRow(s, pos)
            THEN Write(e1, Tag(Margin(e.p, pos), "margin", pos)) ELSE e1
      e3 == Write(e2, Tag(<<glyph>>, "digit", pos))
      e4 == IF CompletesColumn(s, pos) /\ ~LastColumnOfRow(s, e.p, pos)
            THEN Write(e3, Tag(<<" ">>, "sep", pos)) ELSE e3
      e5 == IF CompletesRow(s, pos) /\ ~LastOfExtent(e.p, pos)
            THEN Write(e4, Tag(<<"\n">>, "lf", pos)) ELSE e4
  IN IF e5.p.err = NoErr THEN [e5 EXCEPT !.p.cursor = pos + 1] ELSE e5

\* Missing-digit renderings for the positions from the cursor up to `to`.
RECURSIVE SkipTo(_, _, _)
SkipTo(e, s, to) ==
  IF e.p.err # NoErr \/ e.p.cursor >= to THEN e
  ELSE SkipTo(Render(e, s, e.p.cursor, s.missingDigit), s, to)

\* Seeded fault: Consume accepts any position.
NeverRejected(p, pos) == FALSE

\* Consume requires pos >= cursor; a lower position is rejected.
Rejected(p, pos) == pos < p.cursor

Consume(e, s, pos, digit) ==
  IF ~CanConsume(e.p) THEN e
  ELSE Render(SkipTo(e, s, pos), s, pos, DigitChar(digit))

Finish(e, s) ==
  LET padded == SkipTo(e, s, e.p.extent)
  IN IF s.trailingLineFeed
     THEN Write(padded, Tag(<<"\n">>, "tlf", padded.p.cursor)) ELSE padded

\* ------------------------------------------------------------------ state
VARIABLES
  entry,       \* the entry point called: "Fprint" or "Fwrite"
  options,     \* its options argument
  backward,    \* Fwrite: the positions s.Backward() yields, in order
  settings,    \* the printerSettings handed to newPrinter
  printer,     \* the printer
  sink,        \* the io.Writer w
  rest,        \* Fprint's p argument: the ranges p.All() has yet to yield
  it,          \* fromIterator: the positions its iterator may yield
  pc,          \* where the call stands
  consumed,    \* the (position, digit) pairs handed to Consume, in order
  pulled,      \* pairs pulled from AllInRange() and All() iterators
  backPulled,  \* pairs pulled from Backward()
  stopped,     \* CanConsume() has returned false
  finishCalls, \* calls of Finish()
  result       \* what the entry point returned

vars ==
  <<entry, options, backward, settings, printer, sink, rest, it, pc,
    consumed, pulled, backPulled, stopped, finishCalls, result>>

NoIter == [lo |-> 0, hi |-> 0]
NoResult == [returned |-> FALSE, written |-> 0, err |-> NoErr]

\* Seeded fault: endOf runs through Backward() and keeps the last index.
endOfLast(back) ==
  IF back = <<>> THEN [end |-> 0, pulled |-> 0]
  ELSE [end |-> back[Len(back)] + 1, pulled |-> Len(back)]

\* endOf: the index of the first pair Backward() yields, plus one.
endOf(back) ==
  IF back = <<>> THEN [end |-> 0, pulled |-> 0]
  ELSE [end |-> Head(back) + 1, pulled |-> 1]

OptionLists == UNION {[1 .. n -> OptionValues] : n \in OptionCounts}

RangeLists == UNION {[1 .. n -> Ranges] : n \in RangeCounts}

\* What Backward() yields, the highest position first (its first two
\* positions are all that is modelled).
Backwards ==
  {<<>>} \cup {<<a>> : a \in 0 .. MaxPos - 1}
    \cup {s \in [1 .. 2 -> 0 .. MaxPos - 1] : s[1] > s[2]}

\* The call of an entry point with its arguments; the settings, the printer
\* and the iterator hold placeholders until the call builds them.
Init ==
  /\ entry \in {"Fprint", "Fwrite"}
  /\ options \in OptionLists
  /\ rest \in IF entry = "Fprint" THEN RangeLists ELSE {<<>>}
  /\ backward \in IF entry = "Fwrite" THEN Backwards ELSE {<<>>}
  /\ settings = FprintDefaults
  /\ printer = newPrinter(0)
  /\ sink = NewSink
  /\ it = NoIter
  /\ pc = "start"
  /\ consumed = <<>>
  /\ pulled = 0
  /\ backPulled = 0
  /\ stopped = FALSE
  /\ finishCalls = 0
  /\ result = NoResult

\* Fprint up to the call of fromSequenceWithPositions.
FprintCall ==
  /\ pc = "start" /\ entry = "Fprint"
  /\ settings' = mutateSettings(options, FprintDefaults)
  /\ printer' = newPrinter(End(rest))
  /\ pc' = "ranges"
  /\ UNCHANGED <<entry, options, backward, sink, rest, it, consumed, pulled,
                 backPulled, stopped, finishCalls, result>>

\* Fwrite up to the call of fromIterator(s.All(), printer).
FwriteCall ==
  /\ pc = "start" /\ entry = "Fwrite"
  /\ settings' = mutateSettings(options, FwriteDefaults)
  /\ printer' = newPrinter(endOf(backward).end)
  /\ backPulled' = endOf(backward).pulled
  /\ it' = [lo |-> 0, hi |-> MaxPos]
  /\ pc' = "fi_entry"
  /\ UNCHANGED <<entry, options, backward, sink, rest, consumed, pulled,
                 stopped, finishCalls, result>>

\* fromSequenceWithPositions: the next range of p.All(), or its end.
fromSequenceWithPositions ==
  /\ pc = "ranges"
  /\ IF rest = <<>>
     THEN pc' = "finish" /\ UNCHANGED <<rest, it>>
     ELSE /\ it' = [lo |-> Head(rest).Start, hi |-> Head(rest).End]
          /\ rest' = Tail(rest)
          /\ pc' = "fi_entry"
  /\ UNCHANGED <<entry, options, backward, settings, printer, sink,
                 consumed, pulled, backPulled, stopped, finishCalls, result>>

Caller == IF entry = "Fprint" THEN "ranges" ELSE "finish"

\* fromIterator, lines 178-180: return at once when the printer cannot consume.
fromIteratorEntry ==
  /\ pc = "fi_entry"
  /\ IF ~CanConsume(printer)
     THEN pc' = Caller /\ stopped' = TRUE
     ELSE pc' = "fi_loop" /\ UNCHANGED stopped
  /\ UNCHANGED <<entry, options, backward, settings, printer, sink, rest,
                 it, consumed, pulled, backPulled, finishCalls, result>>

\* Seeded fault: the loop of fromIterator does not ask CanConsume() after
\* Consume.
fromIteratorYieldNoCheck ==
  /\ pc = "fi_loop"
  /\ \E pos \in it.lo .. it.hi - 1, c \in SinkChoices : \E digit \in Digits(pos) :
       /\ pulled' = pulled + 1
       /\ consumed' = Append(consumed, <<pos, digit>>)
       /\ IF Rejected(printer, pos)
          THEN /\ pc' = "panic"
               /\ UNCHANGED <<printer, sink>>
          ELSE LET e == Consume([p |-> printer, w |-> Arm(sink, c)], settings, pos, digit)
               IN /\ printer' = e.p
                  /\ sink' = Settle(e.w)
                  /\ pc' = "fi_loop"
  /\ UNCHANGED <<entry, options, backward, settings, rest, it, backPulled, stopped,
                 finishCalls, result>>

\* fromIterator, lines 181-186: one turn of the loop for a pair the iterator
\* yields.
fromIteratorYield ==
  /\ pc = "fi_loop"
  /\ \E pos \in it.lo .. it.hi - 1, c \in SinkChoices : \E digit \in Digits(pos) :
       /\ pulled' = pulled + 1
       /\ consumed' = Append(consumed, <<pos, digit>>)
       /\ IF Rejected(printer, pos)
          THEN /\ pc' = "panic"
               /\ UNCHANGED <<printer, sink, stopped>>
          ELSE LET e == Consume([p |-> printer, w |-> Arm(sink, c)], settings, pos, digit)
               IN /\ printer' = e.p
                  /\ sink' = Settle(e.w)
                  /\ IF ~CanConsume(e.p)
                     THEN pc' = Caller /\ stopped' = TRUE
                     ELSE pc' = "fi_loop" /\ UNCHANGED stopped
  /\ UNCHANGED <<entry, options, backward, settings, rest, it, backPulled,
                 finishCalls, result>>

\* fromIterator: the iterator has no further pair.
fromIteratorEnd ==
  /\ pc = "fi_loop"
  /\ pc' = Caller
  /\ UNCHANGED <<entry, options, backward, settings, printer, sink, rest,
                 it, consumed, pulled, backPulled, stopped, finishCalls, result>>

\* Seeded fault: the entry point returns without calling Finish().
FinishCallSkipped ==
  /\ pc = "finish"
  /\ pc' = "return"
  /\ UNCHANGED <<entry, options, backward, settings, printer, sink, rest, it,
                 consumed, pulled, backPulled, stopped, finishCalls, result>>

\* Seeded fault: Finish() is called a second time.
FinishCallTwice ==
  /\ pc = "finish"
  /\ \E c \in SinkChoices :
       LET e1 == Finish([p |-> printer, w |-> Arm(sink, c)], settings)
           e2 == Finish(e1, settings)
       IN printer' = e2.p /\ sink' = Settle(e2.w)
  /\ finishCalls' = finishCalls + 2
  /\ pc' = "return"
  /\ UNCHANGED <<entry, options, backward, settings, rest, it, consumed,
                 pulled, backPulled, stopped, result>>

\* printer.Finish() in Fprint and Fwrite.
FinishCall ==
  /\ pc = "finish"
  /\ \E c \in SinkChoices :
       LET e == Finish([p |-> printer, w |-> Arm(sink, c)], settings)
       IN printer' = e.p /\ sink' = Settle(e.w)
  /\ finishCalls' = finishCalls + 1
  /\ pc' = "return"
  /\ UNCHANGED <<entry, options, backward, settings, rest, it, consumed,
                 pulled, backPulled, stopped, result>>

\* Seeded fault: the named result `written` is returned as it was declared.
ReturnNoCount ==
  /\ pc = "return"
  /\ result' = [returned |-> TRUE, written |-> 0, err |-> Err(printer)]
  /\ pc' = "done"
  /\ UNCHANGED <<entry, options, backward, settings, printer, sink, rest,
                 it, consumed, pulled, backPulled, stopped, finishCalls>>

\* return printer.BytesWritten(), printer.Err()
Return ==
  /\ pc = "return"
  /\ result' = [returned |-> TRUE, written |-> BytesWritten(printer), err |-> Err(printer)]
  /\ pc' = "done"
  /\ UNCHANGED <<entry, options, backward, settings, printer, sink, rest,
                 it, consumed, pulled, backPulled, stopped, finishCalls>>

Next ==
  \/ FprintCall
  \/ FwriteCall
  \/ fromSequenceWithPositions
  \/ fromIteratorEntry
  \/ fromIteratorYield
  \/ fromIteratorEnd
  \/ FinishCall
  \/ Return

Spec == Init /\ [][Next]_vars

\* Building the settings alone, for option lists of up to MaxOpts options.
SettingsInit ==
  /\ entry \in {"Fprint", "Fwrite"}
  /\ options \in UNION {[1 .. n -> OptionValues] : n \in 0 .. MaxOpts}
  /\ rest = <<>>
  /\ backward = <<>>
  /\ settings = FprintDefaults
  /\ printer = newPrinter(0)
  /\ sink = NewSink
  /\ it = NoIter
  /\ pc = "start"
  /\ consumed = <<>>
  /\ pulled = 0
  /\ backPulled = 0
  /\ stopped = FALSE
  /\ finishCalls = 0
  /\ result = NoResult

SettingsNext == FprintCall \/ FwriteCall

SettingsSpec == SettingsInit /\ [][SettingsNext]_vars

\* ----------------------------------------------------------------- claims
\* What the caller configured: the argument of the last option of the list
\* that names the field, or the default the entry point documents.
HasOption(name) == \E i \in DOMAIN options : options[i].name = name

LastOption(name) ==
  options[CHOOSE i \in DOMAIN options :
            /\ options[i].name = name
            /\ \A j \in DOMAIN options : j > i => options[j].name # name]

Configured ==
  [digitsPerRow |->
     IF HasOption("DigitsPerRow") THEN LastOption("DigitsPerRow").count ELSE 50,
   digitsPerColumn |->
     IF HasOption("DigitsPerColumn") THEN LastOption("DigitsPerColumn").count ELSE 5,
   showCount |->
     IF HasOption("ShowCount") THEN LastOption("ShowCount").on ELSE TRUE,
   missingDigit |->
     IF HasOption("MissingDigit") THEN LastOption("MissingDigit").glyph ELSE ".",
   trailingLineFeed |->
     IF HasOption("TrailingLF") THEN LastOption("TrailingLF").on
     ELSE entry = "Fwrite",
   leadingDecimal |->
     IF HasOption("LeadingDecimal") THEN LastOption("LeadingDecimal").on
     ELSE entry = "Fprint",
   bufferSize |->
     IF HasOption("bufferSize") THEN LastOption("bufferSize").count ELSE 0]

Data == sink.data
Extent == printer.extent

\* The indexes in the sink's data of the digit bytes, and of the digit byte
\* of position q.
DigitIndexes == {i \in DOMAIN Data : Data[i].kind = "digit"}
DigitIndex(q) == CHOOSE i \in DigitIndexes : Data[i].pos = q
DigitBytes == SelectSeq(Data, LAMBDA b : b.kind = "digit")

\* The entry point returned and no write failed.
Complete == pc = "done" /\ result.err = NoErr

\* Every position handed to Consume lies below the extent, and none lies
\* below the position handed before it.
FedInOrder ==
  /\ \A k \in DOMAIN consumed : consumed[k][1] < Extent
  /\ \A k \in DOMAIN consumed : k > 1 => consumed[k - 1][1] <= consumed[k][1]

Supplied(q) == \E k \in DOMAIN consumed : consumed[k][1] = q
SuppliedDigit(q) == consumed[CHOOSE k \in DOMAIN consumed : consumed[k][1] = q][2]

\* The bytes after the digit of position q, up to the next digit or the end.
After(q) ==
  LET i == DigitIndex(q)
      later == {j \in DigitIndexes : j > i}
      stop == IF later = {} THEN Len(Data) + 1
              ELSE CHOOSE j \in later : \A k \in later : j <= k
  IN SubSeq(Data, i + 1, stop - 1)

Count(seq, ch) == Cardinality({i \in DOMAIN seq : seq[i].ch = ch})

\* C1: when the source's positions lie below the extent and no write fails,
\* the returned output shows the positions 0 .. extent-1 once each and in
\* order: the supplied digit where the source supplied one, the configured
\* missing-digit glyph elsewhere, and nothing beyond the extent.
C1_RendersExactlyTheExtent ==
  (Complete /\ FedInOrder) =>
    /\ Len(DigitBytes) = Extent
    /\ \A q \in 0 .. Extent - 1 :
         /\ DigitBytes[q + 1].pos = q
         /\ DigitBytes[q + 1].ch =
              IF Supplied(q) THEN DigitChar(SuppliedDigit(q))
              ELSE Configured.missingDigit

C1_Witness ==
  /\ Complete /\ entry = "Fprint" /\ Extent = 3
  /\ Len(consumed) = 1 /\ consumed[1][1] = 1
  /\ Configured.missingDigit = "?"

\* C2: a write failure is terminal: the sink rejects at most one write, the
\* recorded error is the error of that first rejection, the printer cannot
\* consume while it is recorded, and what the entry point returns is that
\* error with the number of bytes the sink accepted.
C2_WriteFailureIsTerminal ==
  /\ sink.rejects <= 1
  /\ printer.err = (IF sink.rejects = 0 THEN NoErr ELSE WriteErr(1))
  /\ printer.err # NoErr => ~CanConsume(printer)
  /\ printer.bytesWritten = Len(Data)
  /\ result.returned =>
       /\ result.err = printer.err
       /\ result.written = Len(Data)

C2_Witness ==
  /\ pc = "done" /\ result.err = WriteErr(1) /\ result.written > 0
  /\ Len(consumed) > 1

\* C3: while the printer cannot consume, the driver neither pulls a pair
\* from a source iterator nor calls Consume, whatever ranges remain.
C3_StopsWhenCannotConsume ==
  [][(pc # "start" /\ ~CanConsume(printer)) =>
       (pulled' = pulled /\ consumed' = consumed)]_vars

C3_Witness ==
  /\ entry = "Fprint" /\ pc = "done" /\ stopped
  /\ printer.err # NoErr /\ Len(consumed) = 1 /\ consumed[1][1] = 0
  /\ Extent = 3

\* C4: the settings handed to the printer are the entry point's defaults
\* with, for every field, the argument of the last option naming it.
C4_SettingsAreDefaultsPlusOptions ==
  pc # "start" => settings = Configured

C4_Witness ==
  /\ pc # "start" /\ Len(options) = 3
  /\ options[1].name = "DigitsPerRow" /\ options[3].name = "DigitsPerRow"
  /\ options[1].count # options[3].count
  /\ options[2].name = "TrailingLF"

\* C5: with no write failure, the returned output has one line break after
\* position p exactly when R > 0, p+1 is a multiple of R and p is not the
\* extent's last position; after the last position (or alone, for extent 0)
\* it has one line break, as its last byte, exactly when trailingLineFeed
\* is on; and Finish alone writes that one.
C5_RowWrapping ==
  LET R == Configured.digitsPerRow
  IN /\ (Complete /\ FedInOrder) =>
          /\ \A q \in 0 .. Extent - 2 :
               Count(After(q), "\n") = IF R > 0 /\ (q + 1) % R = 0 THEN 1 ELSE 0
          /\ LET tail == IF Extent = 0 THEN Data ELSE After(Extent - 1)
             IN /\ Count(tail, "\n") = IF Configured.trailingLineFeed THEN 1 ELSE 0
                /\ Configured.trailingLineFeed => Data[Len(Data)].ch = "\n"
     /\ (finishCalls = 0 /\ printer.cursor = Extent /\ Extent > 0 /\ FedInOrder) =>
          Count(After(Extent - 1), "\n") = 0

C5_Witness ==
  /\ Complete /\ Configured.digitsPerRow = 2 /\ Configured.digitsPerColumn = 5
  /\ Configured.trailingLineFeed /\ Extent = 3
  /\ Count(Data, "\n") = 2

C7_FwriteExtentFromBackward ==
  (entry = "Fwrite" /\ pc # "start") =>
    /\ Extent = IF backward = <<>> THEN 0 ELSE backward[1] + 1
    /\ backPulled = IF backward = <<>> THEN 0 ELSE 1
    /\ Extent = 0 =>
         /\ pulled = 0 /\ consumed = <<>>
         /\ Complete =>
              [i \in DOMAIN Data |-> Data[i].ch] =
                IF Configured.trailingLineFeed THEN <<"\n">> ELSE <<>>

C7_Witness ==
  /\ entry = "Fwrite" /\ Complete
  /\ Len(backward) = 2 /\ backward[1] = 2 /\ backward[2] = 0
  /\ Len(DigitBytes) = 3

DecIndexes == {i \in DOMAIN Data : Data[i].kind = "dec"}

C9_FinishExactlyOnce ==
  /\ finishCalls = (IF pc \in {"return", "done"} THEN 1 ELSE 0)
  /\ result.returned <=> pc = "done"

C9_Witness ==
  /\ pc = "done" /\ stopped /\ result.err # NoErr /\ finishCalls = 1
  /\ entry = "Fwrite" /\ Extent = 3 /\ printer.cursor = 1

====
